---- MODULE Spec2Model ----
(***************************************************************************)
(* Model of generate_images.py: the retry wrapper safe_get_stat, the two   *)
(* badge renderers generate_overview and generate_languages, and main.     *)
(*                                                                         *)
(* The program is one cooperative task; every "await" is a position of     *)
(* that task (pc).  Error texts are sequences of characters so that the    *)
(* substring test of safe_get_stat is computed, not assumed.               *)
(***************************************************************************)
EXTENDS Integers, Sequences, FiniteSets, TLC

----------------------------------------------------------------------------
(* Bounds of the model *)

MaxRetriesBound == 2   \* largest max_retries / number of "processing" failures tried
MaxLangs == 3          \* largest number of records in a fetched language mapping
MaxSize == 2           \* largest "size" of a language record

(* Program constants *)

DefaultMaxRetries == 3
DefaultDelay == 5
delay_between == 150

----------------------------------------------------------------------------
(* Error texts, str(e), as character sequences *)

NoExc == <<>>
OK == <<>>

T202 == <<"2", "0", "2">>
TAccepted == <<"A", "c", "c", "e", "p", "t", "e", "d">>
THttp202 == <<"H", "T", "T", "P", " ", "2", "0", "2", " ", "A", "c", "c", "e", "p", "t", "e", "d">>
T404 == <<"4", "0", "4">>
TLowerAccepted == <<"a", "c", "c", "e", "p", "t", "e", "d">>
T20x2 == <<"2", "0", " ", "2">>
TReuse == <<"c","a","n","n","o","t"," ","r","e","u","s","e"," ",
            "a","l","r","e","a","d","y"," ","a","w","a","i","t","e","d"," ",
            "c","o","r","o","u","t","i","n","e">>
TNoToken == <<"t", "o", "k", "e", "n">>
TNoUser == <<"a", "c", "t", "o", "r">>
TNoTemplate == <<"E", "N", "O", "E", "N", "T">>
TIoError == <<"E", "A", "C", "C", "E", "S">>
TNoneType == <<"N", "o", "n", "e", "T", "y", "p", "e">>

\* what the statistics source can raise: texts that carry a marker, and texts that do not
ProcessingErrors == {T202, TAccepted, THttp202}
OtherErrors == {T404, TLowerAccepted, T20x2}

\* "pat in text" of Python, for strings
Contains(text, pat) ==
    \E i \in 1..(Len(text) - Len(pat) + 1) : SubSeq(text, i, i + Len(pat) - 1) = pat

IsProcessingAny(e) == TRUE

\* line 48: "202" in str(e) or "Accepted" in str(e)
IsProcessing(e) == Contains(e, <<"2", "0", "2">>) \/ Contains(e, <<"A", "c", "c", "e", "p", "t", "e", "d">>)

RECURSIVE Pow2(_)
Pow2(n) == IF n <= 0 THEN 1 ELSE 2 * Pow2(n - 1)

\* line 50: wait_time = delay * (2 ** attempt)
WaitTime(delay, attempt) == delay * Pow2(attempt)

----------------------------------------------------------------------------
(* The statistics source (github_stats.Stats): its accessors *)

OverviewStatsSwapped ==
    <<"name", "forks", "stargazers", "total_contributions", "lines_changed", "views", "repos">>

\* lines 80-86: the accessors of generate_overview, in program order
OverviewStats ==
    <<"name", "stargazers", "forks", "total_contributions", "lines_changed", "views", "repos">>

LangNames == {"A", "B", "C"}
LangRecords == [lang : LangNames, size : 1..MaxSize]

\* a language mapping: a dict (insertion ordered, keys distinct) of name -> {size, ...}
LangMaps ==
    {m \in UNION {[1..n -> LangRecords] : n \in 0..MaxLangs} :
        \A i, j \in DOMAIN m : i # j => m[i].lang # m[j].lang}

\* the values an accessor can return
StatValues(stat) ==
    CASE stat = "name" -> {"octocat"}
      [] stat = "lines_changed" -> {<<120, 30>>, <<0, 0>>}
      [] stat = "repos" -> {<<"r1", "r2", "r3">>}
      [] stat = "languages" -> LangMaps
      [] OTHER -> {1234}

\* What one accessor's operation would do on each execution of its body: the first
\* "fails" executions raise the processing error "ptext", every later one ends with
\* "last" (OK, or an error text).
Plans ==
    {p \in [fails : 0..MaxRetriesBound, ptext : ProcessingErrors,
            last : {OK} \cup ProcessingErrors \cup OtherErrors] :
        p.fails = 0 => p.ptext = T202}

PlanOutcome(plan, n) == IF n <= plan.fails THEN plan.ptext ELSE plan.last

----------------------------------------------------------------------------
(* Environment *)

Unset == "<unset>"
EnvValues == {Unset, "", "x"}

\* lines 187-190: "not access_token" for both variables
HasCredentialAlways(e) == TRUE

HasCredential(e) ==
    \/ (e.ACCESS_TOKEN # Unset /\ e.ACCESS_TOKEN # "")
    \/ (e.GITHUB_TOKEN # Unset /\ e.GITHUB_TOKEN # "")

\* line 194: user is None
HasUser(e) == e.GITHUB_ACTOR # Unset

DaysDiffs == {-1, 50}

\* line 35: max(days_diff, 1)
calculate_days_since_first_commit(days_diff) == IF days_diff > 1 THEN days_diff ELSE 1

----------------------------------------------------------------------------
(* Files *)

Absent == [state |-> "absent", body |-> <<>>]
Old == [state |-> "old", body |-> <<>>]
Truncated == [state |-> "truncated", body |-> <<>>]
Written(b) == [state |-> "written", body |-> b]

----------------------------------------------------------------------------
(* Languages renderer: pure part *)

\* a descending insertion that places x before the records of equal size
InsertDescTiesFirst(s, x) ==
    LET later == {i \in 1..Len(s) : s[i].size <= x.size}
        p == IF later = {} THEN Len(s) + 1
             ELSE CHOOSE i \in later : \A j \in later : i <= j
    IN  SubSeq(s, 1, p - 1) \o <<x>> \o SubSeq(s, p, Len(s))

\* position at which sorted(..., reverse=True) places x among the already placed
\* records: after every record whose size is >= x.size
InsertDesc(s, x) ==
    LET later == {i \in 1..Len(s) : s[i].size < x.size}
        p == IF later = {} THEN Len(s) + 1
             ELSE CHOOSE i \in later : \A j \in later : i <= j
    IN  SubSeq(s, 1, p - 1) \o <<x>> \o SubSeq(s, p, Len(s))

RECURSIVE SortPrefix(_, _)
SortPrefix(m, n) == IF n = 0 THEN <<>> ELSE InsertDesc(SortPrefix(m, n - 1), m[n])

\* lines 133-135: sorted(languages_data.items(), reverse=True, key=size)
sorted_languages(m) == SortPrefix(m, Len(m))

\* lines 138-155: one bar segment and one list item per record, enumerate from 0
RenderLanguages(m) ==
    LET s == sorted_languages(m)
    IN  [progress |-> [i \in 1..Len(s) |-> s[i]],
         lang_list |-> [i \in 1..Len(s) |->
                          [lang |-> s[i].lang, delay |-> (i - 1) * delay_between]]]


----------------------------------------------------------------------------
(* State *)

VARIABLES
    env,            \* the environment variables read by main
    templates,      \* which template files can be read
    outDir,         \* whether the directory "generated" exists
    files,          \* generated/overview.svg and generated/languages.svg
    files0,         \* the two files as they were when the run started
    pc,             \* position of the task
    caller,         \* who called safe_get_stat: "ov", "lg" or "direct"
    idx,            \* number of overview accessors handed to safe_get_stat so far
    exc,            \* the exception being propagated, NoExc if none
    session,        \* "none", "open" or "closed"
    sessionsOpened, \* how many client sessions were created
    inflight,       \* accessors whose operation is executing
    calls,          \* accessors whose operation was started, in order
    events,         \* what the run did, in order
    exitCode,       \* -1 while running, then the process exit status
    sgs,            \* frame of safe_get_stat: stat, attempt, max_retries, delay
    coro,           \* the coroutine object passed in: state and plan
    outcomes,       \* outcome of each execution of the coroutine's operation
    waits,          \* the sleeps of the current safe_get_stat call, in order
    awaits,         \* how many times the current call awaited its coroutine
    fetched,        \* results returned to the current renderer, by accessor
    output,         \* the rendered text the renderer is about to write
    opens,          \* output files opened for writing, in order
    succeeded,      \* accessors whose safe_get_stat call returned a result
    failed,         \* accessors whose safe_get_stat call raised
    overviewWritten \* the file content generate_overview wrote in this run

vars == <<env, templates, outDir, files, files0, pc, caller, idx, exc, session,
          sessionsOpened, inflight, calls, events, exitCode, sgs, coro, outcomes,
          waits, awaits, fetched, output, opens, succeeded, failed, overviewWritten>>

fsVars == <<templates, outDir, files, files0, opens, overviewWritten, output>>
mainVars == <<env, session, sessionsOpened, events, exitCode>>
sgsVars == <<sgs, coro, outcomes, waits, awaits>>
trackVars == <<inflight, calls, succeeded, failed>>

NoFrame == [stat |-> "", attempt |-> 0, max_retries |-> 0, delay |-> 0]
NoCoro == [state |-> "none", plan |-> [fails |-> 0, ptext |-> T202, last |-> OK]]

----------------------------------------------------------------------------
(* safe_get_stat, lines 38-60 *)

\* where a result returned by safe_get_stat continues
ReturnTarget(c) ==
    CASE c = "ov" -> IF idx < Len(OverviewStats) THEN "ov_fetch" ELSE "ov_render"
      [] c = "lg" -> "lg_render"
      [] OTHER -> "direct_returned"

\* an except clause that swallows the exception and goes on as after a return
ExceptTargetAsReturn(c) == ReturnTarget(c)

\* where an exception raised by safe_get_stat continues: the caller's except clause
ExceptTarget(c) ==
    CASE c = "ov" -> "ov_except"
      [] c = "lg" -> "lg_except"
      [] OTHER -> "direct_raised"

\* entering safe_get_stat(coroutine, description) with a coroutine object that was
\* just created by reading the accessor and has not been awaited
EnterSgs(stat, c, max_retries, delay, plan) ==
    /\ sgs' = [stat |-> stat, attempt |-> 0, max_retries |-> max_retries, delay |-> delay]
    /\ coro' = [state |-> "fresh", plan |-> plan]
    /\ outcomes' = <<>>
    /\ waits' = <<>>
    /\ awaits' = 0
    /\ caller' = c
    /\ pc' = "sgs_loop"

\* lines 47-59: the except clause, for the exception with text e
Handle(e) ==
    IF IsProcessing(e) /\ sgs.attempt < sgs.max_retries
    THEN /\ waits' = Append(waits, WaitTime(sgs.delay, sgs.attempt))
         /\ pc' = "sgs_sleep"
         /\ exc' = NoExc
         /\ failed' = failed
    ELSE /\ waits' = waits
         /\ pc' = ExceptTarget(caller)
         /\ exc' = e
         /\ failed' = failed \cup {sgs.stat}

\* lines 42-44: one iteration reaches "await coroutine".  A coroutine object that
\* was not awaited yet starts executing its operation; one that already ran to
\* completion raises RuntimeError at the await, which the except clause receives.
SgsAwait ==
    /\ pc = "sgs_loop"
    /\ sgs.attempt <= sgs.max_retries
    /\ awaits' = awaits + 1
    /\ IF coro.state = "fresh"
       THEN /\ coro' = [coro EXCEPT !.state = "running"]
            /\ inflight' = inflight \cup {sgs.stat}
            /\ calls' = Append(calls, sgs.stat)
            /\ pc' = "sgs_await"
            /\ UNCHANGED <<waits, exc, failed>>
       ELSE /\ Handle(TReuse)
            /\ UNCHANGED <<coro, inflight, calls>>
    /\ UNCHANGED <<fsVars, mainVars, caller, idx, sgs, outcomes, fetched, succeeded>>

\* lines 44-59: the awaited operation finishes, with a result (lines 45-46) or
\* with an exception (lines 47-59)
SgsOperationDone ==
    /\ pc = "sgs_await"
    /\ LET o == PlanOutcome(coro.plan, Len(outcomes) + 1)
       IN  /\ outcomes' = Append(outcomes, o)
           /\ coro' = [coro EXCEPT !.state = "finished"]
           /\ inflight' = inflight \ {sgs.stat}
           /\ IF o = OK
              THEN /\ \E v \in StatValues(sgs.stat) : fetched' = (sgs.stat :> v) @@ fetched
                   /\ succeeded' = succeeded \cup {sgs.stat}
                   /\ pc' = ReturnTarget(caller)
                   /\ UNCHANGED <<waits, exc, failed>>
              ELSE /\ Handle(o)
                   /\ UNCHANGED <<fetched, succeeded>>
    /\ UNCHANGED <<fsVars, mainVars, caller, idx, sgs, awaits, calls>>

\* lines 52-53: the sleep is over, continue with the next attempt
SgsSleepDone ==
    /\ pc = "sgs_sleep"
    /\ sgs' = [sgs EXCEPT !.attempt = @ + 1]
    /\ pc' = "sgs_loop"
    /\ UNCHANGED <<fsVars, mainVars, trackVars, caller, idx, exc, coro, outcomes, waits,
                   awaits, fetched>>

\* line 60: the range is empty (max_retries < 0): return None, nothing was awaited
SgsReturnNone ==
    /\ pc = "sgs_loop"
    /\ sgs.attempt > sgs.max_retries
    /\ pc' = ReturnTarget(caller)
    /\ UNCHANGED <<fsVars, mainVars, trackVars, sgsVars, caller, idx, exc, fetched>>


----------------------------------------------------------------------------
(* generate_overview, lines 68-114 *)

\* lines 20-25 for a directory that exists already, or that mkdir can create
FolderReady(ok) == outDir \/ ok

\* lines 76-77: read templates/overview.svg
OvReadTemplate ==
    /\ pc = "ov_template"
    /\ IF templates.overview
       THEN pc' = "ov_fetch" /\ exc' = exc
       ELSE pc' = "ov_except" /\ exc' = TNoTemplate
    /\ fetched' = <<>>
    /\ idx' = 0
    /\ UNCHANGED <<fsVars, mainVars, trackVars, sgsVars, caller>>

\* lines 80-86: read the next accessor (this creates its coroutine object) and
\* call safe_get_stat on it with the default max_retries and delay
OvCallStat ==
    /\ pc = "ov_fetch"
    /\ idx < Len(OverviewStats)
    /\ idx' = idx + 1
    /\ \E plan \in Plans :
         EnterSgs(OverviewStats[idx + 1], "ov", DefaultMaxRetries, DefaultDelay, plan)
    /\ UNCHANGED <<fsVars, mainVars, trackVars, exc, fetched>>

\* lines 89-104: derived values and substitution; line 106: generate_output_folder.
\* The text is kept as the tuple of the values substituted into the template; a
\* result that is None makes the computation raise TypeError.
OvRender ==
    /\ pc = "ov_render"
    /\ \E days_diff \in DaysDiffs, mkdirOk \in BOOLEAN :
         LET changed == fetched["lines_changed"][1] + fetched["lines_changed"][2]
             days == calculate_days_since_first_commit(days_diff)
             lines_per_day == IF days > 0 THEN changed \div days ELSE 0
         IN  IF \E i \in 1..Len(OverviewStats) : OverviewStats[i] \notin DOMAIN fetched
             THEN /\ pc' = "ov_except"
                  /\ exc' = TNoneType
                  /\ UNCHANGED <<output, outDir>>
             ELSE IF FolderReady(mkdirOk)
             THEN /\ output' = <<fetched["name"], fetched["stargazers"], fetched["forks"],
                                 fetched["total_contributions"], changed, fetched["views"],
                                 Len(fetched["repos"]), days, lines_per_day>>
                  /\ outDir' = TRUE
                  /\ pc' = "ov_write"
                  /\ exc' = exc
             ELSE /\ pc' = "ov_except"
                  /\ exc' = TIoError
                  /\ UNCHANGED <<output, outDir>>
    /\ UNCHANGED <<templates, files, files0, opens, overviewWritten, mainVars, trackVars,
                   sgsVars, caller, idx, fetched>>

\* lines 107-110: open generated/overview.svg for writing (this truncates it), write
\* the text, return to main
OvWrite ==
    /\ pc = "ov_write"
    /\ \E result \in {"open_fails", "write_fails", "ok"} :
         CASE result = "open_fails" ->
                /\ pc' = "ov_except" /\ exc' = TIoError
                /\ UNCHANGED <<files, opens, overviewWritten>>
           [] result = "write_fails" ->
                /\ pc' = "ov_except" /\ exc' = TIoError
                /\ files' = [files EXCEPT !.overview = Truncated]
                /\ opens' = Append(opens, "overview")
                /\ UNCHANGED overviewWritten
           [] OTHER ->
                /\ pc' = "main_sleep" /\ exc' = exc
                /\ files' = [files EXCEPT !.overview = Written(output)]
                /\ opens' = Append(opens, "overview")
                /\ overviewWritten' = Written(output)
    /\ UNCHANGED <<templates, outDir, files0, output, mainVars, trackVars, sgsVars, caller,
                   idx, fetched>>

\* lines 112-114: log the failure and re-raise it to main
OvExcept ==
    /\ pc = "ov_except"
    /\ events' = Append(events, "overview_failed")
    /\ pc' = "main_aexit"
    /\ UNCHANGED <<fsVars, env, session, sessionsOpened, exitCode, trackVars, sgsVars,
                   caller, idx, exc, fetched>>

----------------------------------------------------------------------------
(* generate_languages, lines 117-168 *)

\* lines 125-126: read templates/languages.svg
LgReadTemplate ==
    /\ pc = "lg_template"
    /\ IF templates.languages
       THEN pc' = "lg_fetch" /\ exc' = exc
       ELSE pc' = "lg_except" /\ exc' = TNoTemplate
    /\ fetched' = <<>>
    /\ UNCHANGED <<fsVars, mainVars, trackVars, sgsVars, caller, idx>>

\* line 129: read s.languages and call safe_get_stat on it
LgCallStat ==
    /\ pc = "lg_fetch"
    /\ \E plan \in Plans : EnterSgs("languages", "lg", DefaultMaxRetries, DefaultDelay, plan)
    /\ UNCHANGED <<fsVars, mainVars, trackVars, idx, exc, fetched>>

\* lines 131-158: sort, build the fragments, substitute; line 160: generate_output_folder
LgRender ==
    /\ pc = "lg_render"
    /\ \E mkdirOk \in BOOLEAN :
         IF "languages" \notin DOMAIN fetched
         THEN /\ pc' = "lg_except"
              /\ exc' = TNoneType
              /\ UNCHANGED <<output, outDir>>
         ELSE IF FolderReady(mkdirOk)
         THEN /\ output' = <<RenderLanguages(fetched["languages"]).progress,
                             RenderLanguages(fetched["languages"]).lang_list>>
              /\ outDir' = TRUE
              /\ pc' = "lg_write"
              /\ exc' = exc
         ELSE /\ pc' = "lg_except"
              /\ exc' = TIoError
              /\ UNCHANGED <<output, outDir>>
    /\ UNCHANGED <<templates, files, files0, opens, overviewWritten, mainVars, trackVars,
                   sgsVars, caller, idx, fetched>>

\* a write that goes to the other badge's path
LgWriteWrongPath ==
    /\ pc = "lg_write"
    /\ pc' = "main_aexit" /\ exc' = exc
    /\ files' = [files EXCEPT !.overview = Written(output)]
    /\ opens' = Append(opens, "overview")
    /\ UNCHANGED <<templates, outDir, files0, output, overviewWritten, mainVars, trackVars,
                   sgsVars, caller, idx, fetched>>

\* lines 161-164: open generated/languages.svg for writing, write the text, return
LgWrite ==
    /\ pc = "lg_write"
    /\ \E result \in {"open_fails", "write_fails", "ok"} :
         CASE result = "open_fails" ->
                /\ pc' = "lg_except" /\ exc' = TIoError
                /\ UNCHANGED <<files, opens>>
           [] result = "write_fails" ->
                /\ pc' = "lg_except" /\ exc' = TIoError
                /\ files' = [files EXCEPT !.languages = Truncated]
                /\ opens' = Append(opens, "languages")
           [] OTHER ->
                /\ pc' = "main_aexit" /\ exc' = exc
                /\ files' = [files EXCEPT !.languages = Written(output)]
                /\ opens' = Append(opens, "languages")
    /\ UNCHANGED <<templates, outDir, files0, output, overviewWritten, mainVars, trackVars,
                   sgsVars, caller, idx, fetched>>

\* lines 166-168: log the failure and re-raise it to main
LgExcept ==
    /\ pc = "lg_except"
    /\ events' = Append(events, "languages_failed")
    /\ pc' = "main_aexit"
    /\ UNCHANGED <<fsVars, env, session, sessionsOpened, exitCode, trackVars, sgsVars,
                   caller, idx, exc, fetched>>


----------------------------------------------------------------------------
(* main, lines 176-245, and the interpreter around it, lines 248-249 *)

\* lines 187-195: the credential and the username.  Either raise is outside the
\* try statement of line 224: the exception leaves main and asyncio.run, the
\* interpreter prints the traceback and the process ends with status 1.
MainSetup ==
    /\ pc = "main_setup"
    /\ IF ~HasCredential(env)
       THEN /\ exc' = TNoToken
            /\ events' = Append(events, "traceback")
            /\ exitCode' = 1
            /\ pc' = "done"
       ELSE IF ~HasUser(env)
       THEN /\ exc' = TNoUser
            /\ events' = Append(events, "traceback")
            /\ exitCode' = 1
            /\ pc' = "done"
       ELSE /\ pc' = "main_session"
            /\ UNCHANGED <<exc, events, exitCode>>
    /\ UNCHANGED <<fsVars, env, session, sessionsOpened, trackVars, sgsVars, caller, idx,
                   fetched>>

\* lines 225-236: enter the "async with", create the Stats object, call generate_overview
MainOpenSession ==
    /\ pc = "main_session"
    /\ session' = "open"
    /\ sessionsOpened' = sessionsOpened + 1
    /\ events' = Append(events, "open")
    /\ pc' = "ov_template"
    /\ UNCHANGED <<fsVars, env, exitCode, trackVars, sgsVars, caller, idx, exc, fetched>>

\* lines 237-238: the pause between the two phases, then call generate_languages
MainSleep ==
    /\ pc = "main_sleep"
    /\ events' = Append(events, "sleep")
    /\ pc' = "lg_template"
    /\ UNCHANGED <<fsVars, env, session, sessionsOpened, exitCode, trackVars, sgsVars,
                   caller, idx, exc, fetched>>

\* a session that is released only when the block was left without an exception
MainCloseSessionOnSuccessOnly ==
    /\ pc = "main_aexit"
    /\ IF exc = NoExc
       THEN session' = "closed" /\ events' = Append(events, "close") /\ pc' = "main_return"
       ELSE session' = session /\ events' = events /\ pc' = "main_except"
    /\ UNCHANGED <<fsVars, env, sessionsOpened, exitCode, trackVars, sgsVars, caller, idx,
                   exc, fetched>>

\* line 225: leaving the "async with" block, normally or with an exception,
\* closes the session
MainCloseSession ==
    /\ pc = "main_aexit"
    /\ session' = "closed"
    /\ events' = Append(events, "close")
    /\ pc' = IF exc = NoExc THEN "main_return" ELSE "main_except"
    /\ UNCHANGED <<fsVars, env, sessionsOpened, exitCode, trackVars, sgsVars, caller, idx,
                   exc, fetched>>

\* a handler that logs the fatal message and returns normally
MainExceptNoExit ==
    /\ pc = "main_except"
    /\ events' = Append(events, "fatal")
    /\ exitCode' = 0
    /\ pc' = "done"
    /\ UNCHANGED <<fsVars, env, session, sessionsOpened, trackVars, sgsVars, caller, idx,
                   exc, fetched>>

\* lines 243-245: log the fatal message, sys.exit(1)
MainExcept ==
    /\ pc = "main_except"
    /\ events' = Append(events, "fatal")
    /\ exitCode' = 1
    /\ pc' = "done"
    /\ UNCHANGED <<fsVars, env, session, sessionsOpened, trackVars, sgsVars, caller, idx,
                   exc, fetched>>

\* lines 240-241, 249: main returns, asyncio.run returns, the process ends with status 0
MainReturn ==
    /\ pc = "main_return"
    /\ exitCode' = 0
    /\ pc' = "done"
    /\ UNCHANGED <<fsVars, env, session, sessionsOpened, events, trackVars, sgsVars, caller,
                   idx, exc, fetched>>

----------------------------------------------------------------------------
(* Specifications *)

InitialFiles ==
    {<<FALSE, [overview |-> Absent, languages |-> Absent]>>,
     <<TRUE, [overview |-> Absent, languages |-> Absent]>>,
     <<TRUE, [overview |-> Old, languages |-> Old]>>}

InitCommon ==
    /\ \E d \in InitialFiles : outDir = d[1] /\ files = d[2] /\ files0 = d[2]
    /\ idx = 0
    /\ exc = NoExc
    /\ session = "none"
    /\ sessionsOpened = 0
    /\ inflight = {}
    /\ calls = <<>>
    /\ events = <<>>
    /\ exitCode = -1
    /\ fetched = <<>>
    /\ output = <<>>
    /\ opens = <<>>
    /\ succeeded = {}
    /\ failed = {}
    /\ overviewWritten = Absent

\* a run of the program: asyncio.run(main())
Init ==
    /\ InitCommon
    /\ env \in [ACCESS_TOKEN : EnvValues, GITHUB_TOKEN : EnvValues, GITHUB_ACTOR : EnvValues]
    /\ templates \in [overview : BOOLEAN, languages : BOOLEAN]
    /\ pc = "main_setup"
    /\ caller = "none"
    /\ sgs = NoFrame
    /\ coro = NoCoro
    /\ outcomes = <<>>
    /\ waits = <<>>
    /\ awaits = 0

Next ==
    \/ MainSetup
    \/ MainOpenSession
    \/ OvReadTemplate
    \/ OvCallStat
    \/ SgsAwait
    \/ SgsOperationDone
    \/ SgsSleepDone
    \/ OvRender
    \/ OvWrite
    \/ OvExcept
    \/ MainSleep
    \/ LgReadTemplate
    \/ LgCallStat
    \/ LgRender
    \/ LgWrite
    \/ LgExcept
    \/ MainCloseSession
    \/ MainExcept
    \/ MainReturn

Spec == Init /\ [][Next]_vars

Delays == {0, 1, DefaultDelay}

\* one call safe_get_stat(coroutine, description, max_retries, delay) on a fresh
\* coroutine object, for any accessor, any max_retries and any delay
InitRetry ==
    /\ InitCommon
    /\ env = [ACCESS_TOKEN |-> "x", GITHUB_TOKEN |-> Unset, GITHUB_ACTOR |-> "x"]
    /\ templates = [overview |-> TRUE, languages |-> TRUE]
    /\ pc = "sgs_loop"
    /\ caller = "direct"
    /\ \E stat \in {"stargazers", "lines_changed"}, m \in (-1)..MaxRetriesBound, d \in Delays :
         sgs = [stat |-> stat, attempt |-> 0, max_retries |-> m, delay |-> d]
    /\ \E plan \in Plans : coro = [state |-> "fresh", plan |-> plan]
    /\ outcomes = <<>>
    /\ waits = <<>>
    /\ awaits = 0

NextRetry ==
    \/ SgsAwait
    \/ SgsOperationDone
    \/ SgsSleepDone
    \/ SgsReturnNone

SpecRetry == InitRetry /\ [][NextRetry]_vars


----------------------------------------------------------------------------
(* Properties *)

InSeq(x, s) == \E i \in DOMAIN s : s[i] = x
Pos(x, s) == CHOOSE i \in DOMAIN s : s[i] = x
Ended == pc \in {"direct_returned", "direct_raised"}
Backoff(delay, n) == [k \in 1..n |-> delay * Pow2(k - 1)]

\* C1: when the operation fails with an error whose text has neither "202" nor
\* "Accepted", safe_get_stat has executed it once, awaited once, slept never, and
\* the caller receives that same error, for every max_retries and delay.
C1_NonProcessingErrorRaisedAtOnce ==
    (outcomes # <<>> /\ outcomes[1] \in OtherErrors) =>
        /\ Len(outcomes) = 1
        /\ awaits = 1
        /\ waits = <<>>
        /\ pc = "direct_raised"
        /\ exc = outcomes[1]

C1_Witness ==
    /\ pc = "direct_raised"
    /\ outcomes = <<TLowerAccepted>>
    /\ sgs.max_retries = MaxRetriesBound
    /\ sgs.delay = DefaultDelay

\* C2: when every execution of the operation raises a "processing" error, the call
\* ends by raising the last of these failures after max_retries + 1 executions and
\* the waits delay * 2^0 .. delay * 2^(max_retries - 1), none after the last attempt.
C2_ExhaustsAllAttempts ==
    (Ended /\ sgs.max_retries >= 0 /\ coro.plan.last \in ProcessingErrors) =>
        /\ pc = "direct_raised"
        /\ Len(outcomes) = sgs.max_retries + 1
        /\ waits = Backoff(sgs.delay, sgs.max_retries)
        /\ exc = outcomes[Len(outcomes)]

\* C9: when the operation raises a "processing" error on its first k executions
\* (1 <= k <= max_retries) and succeeds on the next, the call returns that result
\* after exactly k + 1 executions and the waits delay * 2^0 .. delay * 2^(k - 1).
C9_RetryReachesTheSuccess ==
    (Ended /\ coro.plan.last = OK /\ coro.plan.fails >= 1
           /\ coro.plan.fails <= sgs.max_retries) =>
        /\ pc = "direct_returned"
        /\ Len(outcomes) = coro.plan.fails + 1
        /\ outcomes[Len(outcomes)] = OK
        /\ sgs.stat \in succeeded
        /\ waits = Backoff(sgs.delay, coro.plan.fails)

ConfigError ==
    \/ (env.ACCESS_TOKEN \in {Unset, ""} /\ env.GITHUB_TOKEN \in {Unset, ""})
    \/ env.GITHUB_ACTOR = Unset

BothBadgesWritten ==
    /\ opens = <<"overview", "languages">>
    /\ files.overview.state = "written"
    /\ files.languages.state = "written"

\* C3, as stated: every failure, raised during setup or during generation, ends in
\* main's fatal message and a non-zero exit; a complete run exits with 0.
C3_EveryFailureLoggedFatal ==
    pc = "done" =>
        /\ BothBadgesWritten => exitCode = 0
        /\ ~BothBadgesWritten => (InSeq("fatal", events) /\ exitCode > 0)

\* C3, amended: a failure during badge generation ends in main's fatal message as
\* the last thing the run does and exit status 1; a failure during setup leaves
\* main uncaught, without main's fatal message, and the process still ends with a
\* non-zero status; a run that wrote both badges exits with 0 and no fatal message.
C3_FailureExitsNonZero ==
    pc = "done" =>
        /\ BothBadgesWritten <=> exc = NoExc
        /\ BothBadgesWritten => (exitCode = 0 /\ ~InSeq("fatal", events))
        /\ (~BothBadgesWritten /\ ~ConfigError) =>
              (exitCode = 1 /\ events # <<>> /\ events[Len(events)] = "fatal")
        /\ (~BothBadgesWritten /\ ConfigError) =>
              (exitCode > 0 /\ ~InSeq("fatal", events) /\ events = <<"traceback">>)

C3_Witness ==
    /\ pc = "done"
    /\ exitCode = 1
    /\ InSeq("fatal", events)
    /\ InSeq("overview_failed", events)
    /\ exc = TReuse

\* C4: in a run with a configuration error (no non-empty credential, or no
\* username) no client session is ever created and no accessor is ever read,
\* awaited or executed.
C4_NoNetworkOnConfigError ==
    ConfigError =>
        /\ session = "none"
        /\ sessionsOpened = 0
        /\ ~InSeq("open", events)
        /\ calls = <<>>
        /\ inflight = {}
        /\ coro.state = "none"
        /\ awaits = 0

C4_Witness ==
    /\ pc = "done"
    /\ exitCode = 1
    /\ env.ACCESS_TOKEN = ""
    /\ env.GITHUB_TOKEN = Unset
    /\ env.GITHUB_ACTOR = "x"
    /\ exc = TNoToken

\* C5: once generate_overview has written generated/overview.svg, the file keeps
\* exactly that content to the end of the run, whatever generate_languages and
\* the failure handling of main do.
C5_OverviewKeptOnLaterFailure ==
    overviewWritten.state = "written" => files.overview = overviewWritten

C5_Witness ==
    /\ pc = "done"
    /\ exitCode = 1
    /\ InSeq("languages_failed", events)
    /\ files.languages = Truncated
    /\ files0.languages = Old
    /\ overviewWritten.state = "written"
    /\ files.overview = overviewWritten

FixedOrder ==
    <<"name", "stargazers", "forks", "total_contributions", "lines_changed", "views",
      "repos", "languages">>

\* C6: at most one accessor operation executes at a time; the operations start in
\* the order name, stargazers, forks, total contributions, lines changed, views,
\* repos, languages, each after all earlier ones returned a result; the languages
\* operation starts only after overview.svg was written and the pause was taken.
C6_CallsOneAtATimeInOrder ==
    /\ Cardinality(inflight) <= 1
    /\ Len(calls) <= Len(FixedOrder)
    /\ \A i \in DOMAIN calls : calls[i] = FixedOrder[i]
    /\ \A i \in DOMAIN calls : i < Len(calls) => (calls[i] \in succeeded /\ calls[i] \notin inflight)
    /\ inflight # {} => inflight = {calls[Len(calls)]}
    /\ InSeq("languages", calls) =>
          /\ files.overview.state = "written"
          /\ InSeq("overview", opens)
          /\ InSeq("sleep", events)

C6_Witness ==
    /\ inflight = {"languages"}
    /\ Len(calls) = 8

\* C7: a run that passes configuration creates exactly one session, never a second
\* one, and the session is closed before the fatal message and before the process
\* exits, after success and after a failure of either renderer.
C7_SessionOpenedOnceAndReleased ==
    /\ sessionsOpened <= 1
    /\ (session = "none") <=> (sessionsOpened = 0)
    /\ (~ConfigError /\ pc \notin {"main_setup", "main_session"}) => sessionsOpened = 1
    /\ (~ConfigError /\ exitCode # -1) => session = "closed"
    /\ InSeq("fatal", events) =>
          (session = "closed" /\ InSeq("close", events)
             /\ Pos("close", events) < Pos("fatal", events))
    /\ pc \in {"main_except", "main_return"} => session = "closed"

C7_Witness ==
    /\ pc = "done"
    /\ exitCode = 1
    /\ session = "closed"
    /\ sessionsOpened = 1
    /\ InSeq("languages_failed", events)
    /\ exc = T404

\* out == <<bar segments, list items>> is a rendering of the mapping m: the same
\* records, by descending size, equal sizes in the order of m, item i delayed i * 150
RenderedFrom(out, m) ==
    LET bars == out[1]
        items == out[2]
    IN  /\ Len(bars) = Len(m) /\ Len(items) = Len(m)
        /\ \A i \in DOMAIN bars : InSeq(bars[i], m)
        /\ \A i \in DOMAIN m : InSeq(m[i], bars)
        /\ \A i \in DOMAIN items :
              items[i].lang = bars[i].lang /\ items[i].delay = (i - 1) * 150
        /\ \A i, j \in DOMAIN bars : i < j =>
              /\ bars[i].size >= bars[j].size
              /\ bars[i].size = bars[j].size => Pos(bars[i], m) < Pos(bars[j], m)

\* C8: the text generate_languages writes has the bar segments and list items by
\* descending size, records of equal size in the order of the fetched mapping, and
\* the i-th list item (from 0) has animation delay i * 150.
C8_LanguagesSortedStable ==
    /\ pc = "lg_write" => RenderedFrom(output, fetched["languages"])
    /\ files.languages.state = "written" =>
          RenderedFrom(files.languages.body, fetched["languages"])

C8_Witness ==
    /\ files.languages.state = "written"
    /\ LET m == fetched["languages"]
       IN  /\ Len(m) = 3
           /\ m[1].size < m[2].size
           /\ m[1].size = m[3].size
           /\ files.languages.body[2][3] = [lang |-> m[3].lang, delay |-> 300]

OverviewAccessors ==
    {"name", "stargazers", "forks", "total_contributions", "lines_changed", "views", "repos"}

\* C10: an output file is opened for writing only when its template was read and
\* every fetch of its renderer returned a result; without the template the renderer
\* starts no fetch; after a fetch that raised, the renderer starts no further fetch
\* and its output file is as it was when the run started.
C10_WriteOnlyAfterAllFetches ==
    /\ InSeq("overview", opens) =>
          (templates.overview /\ OverviewAccessors \subseteq succeeded)
    /\ InSeq("languages", opens) =>
          (templates.languages /\ "languages" \in succeeded)
    /\ ~templates.overview => calls = <<>>
    /\ ~templates.languages => ~InSeq("languages", calls)
    /\ \A st \in failed :
          /\ calls[Len(calls)] = st
          /\ pc \notin {"ov_fetch", "ov_render", "ov_write", "lg_render", "lg_write", "sgs_loop"}
    /\ failed \cap OverviewAccessors # {} =>
          (files.overview = files0.overview /\ ~InSeq("overview", opens))
    /\ "languages" \in failed =>
          (files.languages = files0.languages /\ ~InSeq("languages", opens))

C10_Witness ==
    /\ pc = "done"
    /\ failed = {"forks"}
    /\ calls = <<"name", "stargazers", "forks">>
    /\ files0.overview = Old
    /\ files.overview = Old
    /\ opens = <<>>

====
